---- MODULE Spec2Model ----
(***************************************************************************)
(* Model of sample/linux/flight-control/flight_control_sample.cpp:         *)
(* monitoredTakeoff, monitoredLanding and moveByPositionOffset, each a     *)
(* blocking procedure that polls the telemetry subscription between        *)
(* sleeps.  One action is one step of a procedure between two suspension   *)
(* points (an acknowledged request, or one evaluation of a polling loop's  *)
(* condition followed by its body).  The values the vehicle link returns   *)
(* (acknowledgements, telemetry samples) are the inputs of the steps.      *)
(*                                                                         *)
(* Units: lengths in centimetres, angles in degrees, times in              *)
(* milliseconds, so that every quantity of the source is an integer.       *)
(***************************************************************************)
EXTENDS Integers, FiniteSets, Sequences, TLC

VARIABLES
  op,                 \* the procedure that was called ("none" before the call)
  pc,                 \* position inside the procedure
  result,             \* the value returned to the caller
  outcome,            \* which exit was taken, by its name in the error taxonomy
  exitLine,           \* source line of the return statement taken (0: none yet)
  flightStatus,       \* latest TOPIC_STATUS_FLIGHT value read
  displayMode,        \* latest TOPIC_STATUS_DISPLAYMODE value read
  motorsNotStarted,   \* takeoff, first loop counter
  stillOnGround,      \* takeoff, second loop counter
  landingNotStarted,  \* landing, first loop counter
  autoLandingSeen,    \* one of the first 20 polls of the first landing loop read MODE_AUTO_LANDING
  started,            \* startPackage was acknowledged as success
  removeCount,        \* calls of removePackage made by this invocation
  teardownAck,        \* acknowledgement of the removePackage call ("none" before)
  actuated,           \* an actuation request was sent (takeoff, land, setpoint, brake)
  telemetryRead,      \* getValue was called at least once
  accepted,           \* the takeoff / land request was acknowledged as success
  polls,              \* polls made by the two counted phases of takeoff (capped)
  allOnGround,        \* every poll so far read ON_GROUND
  allAirborne,        \* every poll so far read IN_AIR and not MODE_ENGINE_START
  spinMon,            \* progress of the stream: "wait_spin", "wait_air", "aired", "late"
  finalMode,          \* DisplayMode read by the final mode check ("none" before)
  airExitMode,        \* DisplayMode read by the poll that ended the second takeoff loop ("none" before)
  feed,               \* how the simulated vehicle answers setpoints (move only)
  goal,               \* xOffsetDesired, yOffsetDesired, zOffsetDesired, yawDesired
  posThresholdInM,    \* (in cm)
  yawThresholdInDeg,
  originGPS,          \* fused position captured before the loop
  currentGPS,         \* latest fused position read
  yawInRad,           \* latest yaw read (kept in degrees)
  xCmd, yCmd, zCmd,   \* the setpoint
  elapsedTimeInMs,
  withinBoundsCounter,
  outOfBounds,
  inBoundsStreak,     \* control cycles in a row, up to the latest, whose sample was within bounds (capped)
  wasReset,           \* step 3 has reset the two counters at least once
  excursionsMade,     \* times the "dwell" vehicle has left the bounds
  excursionLen,       \* cycles the "dwell" vehicle has been out of bounds in a row
  brakeCounter,
  setpointsSent,      \* positionAndYawCtrl calls made
  lastSetpoint,       \* arguments of the latest positionAndYawCtrl call
  brakesSent,         \* emergencyBrake calls made
  lastSent            \* the last actuation request sent: "none", "setpoint", "brake", ...

flightVars == <<flightStatus, displayMode, motorsNotStarted, stillOnGround,
                landingNotStarted, autoLandingSeen, accepted, polls, allOnGround, allAirborne,
                spinMon, finalMode, airExitMode>>
moveVars == <<feed, goal, posThresholdInM, yawThresholdInDeg, originGPS,
              currentGPS, yawInRad, xCmd, yCmd, zCmd, elapsedTimeInMs,
              withinBoundsCounter, outOfBounds, inBoundsStreak, wasReset, excursionsMade, excursionLen, brakeCounter,
              setpointsSent, lastSetpoint, brakesSent>>
callVars == <<op, pc, result, outcome, exitLine, started, removeCount, teardownAck,
              actuated, telemetryRead, lastSent>>
vars == <<callVars, flightVars, moveVars>>

----------------------------------------------------------------------------
(* Values exchanged with the vehicle link *)

\* ACK::getError(ack) is compared with ACK::SUCCESS only
AckValues == {"SUCCESS", "FAIL"}

\* FlightStatus: the two values the source names, and any other value
FlightStatusValues == {"ON_GROUND", "IN_AIR", "OTHER_STATUS"}

\* DisplayMode: the six values the source names, and any other value
DisplayModeValues ==
  {"MODE_ENGINE_START", "MODE_ASSISTED_TAKEOFF", "MODE_AUTO_TAKEOFF",
   "MODE_AUTO_LANDING", "MODE_P_GPS", "MODE_ATTITUDE", "OTHER_MODE"}

\* cap of the ghost poll counter; nothing is asked of polls beyond the 90th
MaxPollCount == 91

Min(a, b) == IF a < b THEN a ELSE b
Abs(a) == IF a < 0 THEN -a ELSE a

----------------------------------------------------------------------------
(* Program constants of monitoredTakeoff and monitoredLanding *)

\* timeoutCycles of the "motors started" loop
MotorsTimeoutCycles == 20
\* timeoutCycles of the "in air" loop
AirTimeoutCycles == 110
\* timeoutCycles of the "landing started" loop
LandingTimeoutCycles == 20

----------------------------------------------------------------------------
(* Steps shared by the three procedures *)

Return(val, name, line) ==
  /\ pc' = "done"
  /\ result' = val
  /\ outcome' = name
  /\ exitLine' = line

\* subscribe->removePackage(pkgIndex, timeout), with its acknowledgement
RemovePackage(ack) ==
  /\ removeCount' = removeCount + 1
  /\ teardownAck' = ack

\* the call: main calls the three procedures one after the other, each on
\* its own; the model follows one invocation
CallFlight(o) ==
  /\ pc = "idle"
  /\ op' = o
  /\ pc' = "verify"
  /\ UNCHANGED <<result, outcome, exitLine, started, removeCount, teardownAck, actuated,
                 telemetryRead, lastSent, flightVars, moveVars>>

\* subscribe->verify(timeout); a failed acknowledgement returns false
Verify(o) ==
  /\ pc = "verify" /\ op = o
  /\ \E ack \in AckValues :
       IF ack # "SUCCESS"
         THEN Return("false", "LinkNotReady",
                     CASE o = "takeoff" -> 92 [] o = "move" -> 247 [] OTHER -> 440)
         ELSE /\ pc' = "init"
              /\ UNCHANGED <<result, outcome, exitLine>>
  /\ UNCHANGED <<op, started, removeCount, teardownAck, actuated, telemetryRead, lastSent,
                 flightVars, moveVars>>

\* subscribe->initPackageFromTopicList(...); on failure pkgStatus (false) is returned
InitPackage(o) ==
  /\ pc = "init" /\ op = o
  /\ \E pkgStatus \in BOOLEAN :
       IF ~pkgStatus
         THEN Return("false", "SubscriptionFailed",
                     CASE o = "takeoff" -> 106 [] o = "move" -> 262 [] OTHER -> 454)
         ELSE /\ pc' = "start"
              /\ UNCHANGED <<result, outcome, exitLine>>
  /\ UNCHANGED <<op, started, removeCount, teardownAck, actuated, telemetryRead, lastSent,
                 flightVars, moveVars>>

\* mutant: the failed start returns without removing the package
StartPackage_noCleanup(o) ==
  /\ pc = "start" /\ op = o
  /\ \E ack \in AckValues :
       IF ack # "SUCCESS"
         THEN /\ UNCHANGED <<removeCount, teardownAck>>
              /\ started' = started
              /\ Return("false", "SubscriptionFailed",
                        CASE o = "takeoff" -> 114 [] o = "move" -> 270 [] OTHER -> 462)
         ELSE /\ started' = TRUE
              /\ UNCHANGED <<removeCount, teardownAck>>
              /\ pc' = IF o = "move" THEN "capture" ELSE "actuate"
              /\ UNCHANGED <<result, outcome, exitLine>>
  /\ UNCHANGED <<op, actuated, telemetryRead, lastSent, flightVars, moveVars>>

\* subscribe->startPackage(pkgIndex, timeout); on failure the package is
\* removed and false is returned
StartPackage(o) ==
  /\ pc = "start" /\ op = o
  /\ \E ack \in AckValues :
       IF ack # "SUCCESS"
         THEN /\ \E rm \in AckValues : RemovePackage(rm)
              /\ started' = started
              /\ Return("false", "SubscriptionFailed",
                        CASE o = "takeoff" -> 114 [] o = "move" -> 270 [] OTHER -> 462)
         ELSE /\ started' = TRUE
              /\ UNCHANGED <<removeCount, teardownAck>>
              /\ pc' = IF o = "move" THEN "capture" ELSE "actuate"
              /\ UNCHANGED <<result, outcome, exitLine>>
  /\ UNCHANGED <<op, actuated, telemetryRead, lastSent, flightVars, moveVars>>

----------------------------------------------------------------------------
(* monitoredTakeoff *)

\* the first loop of monitoredTakeoff waits for this reading
MotorsSpinning(fs, dm) == fs = "ON_GROUND" \/ dm = "MODE_ENGINE_START"

\* the stream read so far, against: some poll among the first 15 reads
\* "motors spinning", and some later poll among the first 90 reads IN_AIR
SpinMonAfter(mon, poll, fs, dm) ==
  CASE mon = "wait_spin" ->
         IF MotorsSpinning(fs, dm) THEN "wait_air"
         ELSE IF poll >= 15 THEN "late" ELSE "wait_spin"
    [] mon = "wait_air" ->
         IF fs = "IN_AIR" THEN "aired"
         ELSE IF poll >= 90 THEN "late" ELSE "wait_air"
    [] OTHER -> mon

\* what every poll of the two counted phases of monitoredTakeoff records
PollGhost(fs, dm) ==
  /\ spinMon' = SpinMonAfter(spinMon, polls + 1, fs, dm)
  /\ polls' = Min(polls + 1, MaxPollCount)
  /\ allOnGround' = (allOnGround /\ fs = "ON_GROUND")
  /\ allAirborne' = (allAirborne /\ fs = "IN_AIR" /\ dm # "MODE_ENGINE_START")

\* getValue: the latest sample of the two topics
Sample(fs, dm) ==
  /\ flightStatus' = fs
  /\ displayMode' = dm
  /\ telemetryRead' = TRUE

streamVars == <<polls, allOnGround, allAirborne, spinMon>>

\* control->takeoff(timeout); a failed acknowledgement returns false
TakeoffRequest ==
  /\ pc = "actuate" /\ op = "takeoff"
  /\ actuated' = TRUE
  /\ lastSent' = "takeoff"
  /\ \E takeoffStatus \in AckValues :
       IF takeoffStatus # "SUCCESS"
         THEN /\ Return("false", "ActuationRejected", 122)
              /\ accepted' = accepted
         ELSE /\ pc' = "motors"
              /\ accepted' = TRUE
              /\ UNCHANGED <<result, outcome, exitLine>>
  /\ UNCHANGED <<op, started, removeCount, teardownAck, telemetryRead, moveVars,
                 flightStatus, displayMode, motorsNotStarted, stillOnGround,
                 landingNotStarted, autoLandingSeen, polls, allOnGround, allAirborne,
                 spinMon, finalMode, airExitMode>>

\* mutant: the loop counts while the motors are reported spinning
MotorsLoopCond_inverted(fs, dm, n) ==
  /\ (fs = "ON_GROUND" \/ dm = "MODE_ENGINE_START")
  /\ n < MotorsTimeoutCycles

\* condition of the first polling loop
MotorsLoopCond(fs, dm, n) ==
  /\ fs # "ON_GROUND"
  /\ dm # "MODE_ENGINE_START"
  /\ n < MotorsTimeoutCycles

\* one evaluation of the first loop: either its body (count, sleep 100 ms)
\* or the check that follows the loop
MotorsPoll ==
  /\ pc = "motors" /\ op = "takeoff"
  /\ \E fs \in FlightStatusValues, dm \in DisplayModeValues :
       /\ Sample(fs, dm)
       /\ PollGhost(fs, dm)
       /\ IF MotorsLoopCond(fs, dm, motorsNotStarted)
            THEN /\ motorsNotStarted' = motorsNotStarted + 1
                 /\ UNCHANGED <<pc, result, outcome, exitLine, removeCount, teardownAck>>
            ELSE /\ motorsNotStarted' = motorsNotStarted
                 /\ IF motorsNotStarted = MotorsTimeoutCycles
                      THEN \E ack \in AckValues :
                             /\ RemovePackage(ack)
                             /\ Return("false", "MotorsNotStarted", 143)
                      ELSE /\ pc' = "air"
                           /\ UNCHANGED <<result, outcome, exitLine, removeCount, teardownAck>>
  /\ UNCHANGED <<op, started, actuated, lastSent, accepted, stillOnGround,
                 landingNotStarted, autoLandingSeen, finalMode, airExitMode, moveVars>>

\* mutant: the loop counts while the vehicle is reported in the air
AirLoopCond_inverted(fs, dm, n) ==
  /\ fs = "IN_AIR"
  /\ (dm # "MODE_ASSISTED_TAKEOFF" \/ dm # "MODE_AUTO_TAKEOFF")
  /\ n < AirTimeoutCycles

\* condition of the second polling loop
AirLoopCond(fs, dm, n) ==
  /\ fs # "IN_AIR"
  /\ (dm # "MODE_ASSISTED_TAKEOFF" \/ dm # "MODE_AUTO_TAKEOFF")
  /\ n < AirTimeoutCycles

AirPoll ==
  /\ pc = "air" /\ op = "takeoff"
  /\ \E fs \in FlightStatusValues, dm \in DisplayModeValues :
       /\ Sample(fs, dm)
       /\ PollGhost(fs, dm)
       /\ IF AirLoopCond(fs, dm, stillOnGround)
            THEN /\ stillOnGround' = stillOnGround + 1
                 /\ UNCHANGED <<pc, result, outcome, exitLine, removeCount,
                                teardownAck, airExitMode>>
            ELSE /\ stillOnGround' = stillOnGround
                 /\ IF stillOnGround = AirTimeoutCycles
                      THEN \E ack \in AckValues :
                             /\ RemovePackage(ack)
                             /\ Return("false", "StillOnGround", 172)
                             /\ airExitMode' = airExitMode
                      ELSE /\ pc' = "settle"
                           /\ airExitMode' = dm
                           /\ UNCHANGED <<result, outcome, exitLine, removeCount, teardownAck>>
  /\ UNCHANGED <<op, started, actuated, lastSent, accepted, motorsNotStarted,
                 landingNotStarted, autoLandingSeen, finalMode, moveVars>>

\* condition of the third loop, which has no counter
SettleLoopCond(dm) ==
  dm = "MODE_ASSISTED_TAKEOFF" \/ dm = "MODE_AUTO_TAKEOFF"

SettlePoll ==
  /\ pc = "settle" /\ op = "takeoff"
  /\ \E dm \in DisplayModeValues :
       /\ Sample(flightStatus, dm)
       /\ pc' = IF SettleLoopCond(dm) THEN "settle" ELSE "final"
  /\ UNCHANGED <<op, result, outcome, exitLine, started, removeCount, teardownAck, actuated,
                 lastSent, accepted, motorsNotStarted, stillOnGround,
                 landingNotStarted, autoLandingSeen, finalMode, airExitMode, streamVars, moveVars>>

\* the final mode check, as written: it takes the "successful" branch
\* when it holds
FinalModeCheck(dm) ==
  dm # "MODE_P_GPS" \/ dm # "MODE_ATTITUDE"

\* final check, cleanup and return; the acknowledgement of removePackage
\* only selects a message
TakeoffFinal ==
  /\ pc = "final" /\ op = "takeoff"
  /\ \E dm \in DisplayModeValues, ack \in AckValues :
       /\ Sample(flightStatus, dm)
       /\ finalMode' = dm
       /\ RemovePackage(ack)
       /\ IF FinalModeCheck(dm)
            THEN Return("true", "Success", 211)
            ELSE Return("false", "UnexpectedMode", 200)
  /\ UNCHANGED <<op, started, actuated, lastSent, accepted, motorsNotStarted,
                 stillOnGround, landingNotStarted, autoLandingSeen, airExitMode,
                 streamVars, moveVars>>

----------------------------------------------------------------------------
(* monitoredLanding *)

\* control->land(timeout); a failed acknowledgement returns false
LandRequest ==
  /\ pc = "actuate" /\ op = "landing"
  /\ actuated' = TRUE
  /\ lastSent' = "land"
  /\ \E landingStatus \in AckValues :
       IF landingStatus # "SUCCESS"
         THEN /\ Return("false", "ActuationRejected", 470)
              /\ accepted' = accepted
         ELSE /\ pc' = "descent"
              /\ accepted' = TRUE
              /\ UNCHANGED <<result, outcome, exitLine>>
  /\ UNCHANGED <<op, started, removeCount, teardownAck, telemetryRead, moveVars,
                 flightStatus, displayMode, motorsNotStarted, stillOnGround,
                 landingNotStarted, autoLandingSeen, polls, allOnGround, allAirborne,
                 spinMon, finalMode, airExitMode>>

\* mutant: the loop allows one more cycle at the end of its budget
LandingLoopCond_inclusive(dm, n) ==
  /\ dm # "MODE_AUTO_LANDING"
  /\ n <= LandingTimeoutCycles

\* condition of the "landing started" loop; it reads the display mode only
LandingLoopCond(dm, n) ==
  /\ dm # "MODE_AUTO_LANDING"
  /\ n < LandingTimeoutCycles

DescentPoll ==
  /\ pc = "descent" /\ op = "landing"
  /\ \E dm \in DisplayModeValues :
       /\ Sample(flightStatus, dm)
       /\ autoLandingSeen' =
            (autoLandingSeen
               \/ (dm = "MODE_AUTO_LANDING" /\ landingNotStarted + 1 <= 20))
       /\ IF LandingLoopCond(dm, landingNotStarted)
            THEN /\ landingNotStarted' = landingNotStarted + 1
                 /\ UNCHANGED <<pc, result, outcome, exitLine, removeCount, teardownAck>>
            ELSE /\ landingNotStarted' = landingNotStarted
                 /\ IF landingNotStarted = LandingTimeoutCycles
                      THEN \E ack \in AckValues :
                             /\ RemovePackage(ack)
                             /\ Return("false", "LandingNotStarted", 494)
                      ELSE /\ pc' = "touchdown"
                           /\ UNCHANGED <<result, outcome, exitLine, removeCount, teardownAck>>
  /\ UNCHANGED <<op, started, actuated, lastSent, accepted, motorsNotStarted,
                 stillOnGround, finalMode, airExitMode, streamVars, moveVars>>

\* condition of the "finished landing" loop, which has no counter
TouchdownLoopCond(dm, fs) ==
  dm = "MODE_AUTO_LANDING" /\ fs = "IN_AIR"

TouchdownPoll ==
  /\ pc = "touchdown" /\ op = "landing"
  /\ \E fs \in FlightStatusValues, dm \in DisplayModeValues :
       /\ Sample(fs, dm)
       /\ pc' = IF TouchdownLoopCond(dm, fs) THEN "touchdown" ELSE "final"
  /\ UNCHANGED <<op, result, outcome, exitLine, started, removeCount, teardownAck, actuated,
                 lastSent, accepted, motorsNotStarted, stillOnGround,
                 landingNotStarted, autoLandingSeen, finalMode, airExitMode, streamVars, moveVars>>

LandingFinal ==
  /\ pc = "final" /\ op = "landing"
  /\ \E dm \in DisplayModeValues, ack \in AckValues :
       /\ Sample(flightStatus, dm)
       /\ finalMode' = dm
       /\ RemovePackage(ack)
       /\ IF FinalModeCheck(dm)
            THEN Return("true", "Success", 537)
            ELSE Return("false", "UnexpectedMode", 527)
  /\ UNCHANGED <<op, started, actuated, lastSent, accepted, motorsNotStarted,
                 stillOnGround, landingNotStarted, autoLandingSeen, airExitMode,
                 streamVars, moveVars>>

----------------------------------------------------------------------------
(* moveByPositionOffset *)

timeoutInMilSec == 10000
controlFreqInHz == 50
cycleTimeInMs == 1000 \div controlFreqInHz
outOfControlBoundsTimeLimit == 10 * cycleTimeInMs
withinControlBoundsTimeReqmt == 50 * cycleTimeInMs
\* 2 m
speedFactor == 200
\* 0.12 m
zDeadband == 12

\* the goals main passes (metres and degrees there), one below speedFactor
\* and one within the tolerances
Goals ==
  { [x |-> 0,    y |-> 600,  z |-> 600,  yaw |-> 30],
    [x |-> 600,  y |-> 0,    z |-> -300, yaw |-> -30],
    [x |-> -600, y |-> -600, z |-> 0,    yaw |-> 0],
    [x |-> 100,  y |-> -100, z |-> 0,    yaw |-> 0],
    [x |-> 10,   y |-> -10,  z |-> 0,    yaw |-> 0] }

\* the tolerances the caller passes: main leaves them to their defaults
\* (0.2 m and 1 degree)
PosThresholds == {20}
YawThresholds == {1}

\* the fused position at the time of the call; latitude and longitude are
\* kept as the distance they stand for on the ground (radians * C_EARTH)
OriginSamples ==
  { [latitude |-> 0, longitude |-> 0, altitude |-> 150] }
OriginYaws == {0}

\* the simulated vehicles:
\*   still   never moves from where it was at the call;
\*   track   moves exactly to each commanded setpoint;
\*   settle  stays where it was, then at some cycle is at the pose the
\*           convergence test accepts, and stays there;
\*   drift   wanders around the horizontal goal with its heading off;
\*   dwell   holds the horizontal goal and the heading from the first cycle
\*           on, while its altitude leaves the deadband up to MaxExcursions
\*           times, each time for up to MaxExcursionCycles cycles
Feeds == {"still", "track", "settle", "drift"}
DwellFeeds == {"dwell"}
DwellGoals == { [x |-> 0, y |-> 600, z |-> 600, yaw |-> 30] }

localOffsetFromGpsOffset(target, origin) ==
  [x |-> target.latitude - origin.latitude,
   y |-> target.longitude - origin.longitude,
   z |-> target.altitude - origin.altitude]

xOffsetRemainingOf(g, localOffset) == g.x - localOffset.x
yOffsetRemainingOf(g, localOffset) == g.y - localOffset.y
zOffsetRemainingOf(g, localOffset) == g.z - (-localOffset.z)

\* remaining offsets as the program last computed them
xOffsetRemaining ==
  xOffsetRemainingOf(goal, localOffsetFromGpsOffset(currentGPS, originGPS))
yOffsetRemaining ==
  yOffsetRemainingOf(goal, localOffsetFromGpsOffset(currentGPS, originGPS))
zOffsetRemaining ==
  zOffsetRemainingOf(goal, localOffsetFromGpsOffset(currentGPS, originGPS))

\* the setpoint computed before the loop from the desired offset of one axis
InitialCmd(offsetDesired) ==
  IF offsetDesired > 0
    THEN (IF offsetDesired < speedFactor THEN offsetDesired ELSE speedFactor)
    ELSE IF offsetDesired < 0
      THEN (IF offsetDesired > -1 * speedFactor
              THEN offsetDesired ELSE -1 * speedFactor)
      ELSE 0

\* mutant: the setpoint update sends the whole remaining offset
UpdatedCmd_unclamped(cmd, offsetRemaining) == offsetRemaining

\* "See if we need to modify the setpoint", one axis
UpdatedCmd(cmd, offsetRemaining) ==
  IF Abs(offsetRemaining) < speedFactor THEN offsetRemaining ELSE cmd

\* the convergence test of one cycle
WithinBounds(xRem, yRem, zRem, yaw, g, posThr, yawThr) ==
  /\ Abs(xRem) < posThr
  /\ Abs(yRem) < posThr
  /\ Abs(zRem) < zDeadband
  /\ Abs(yaw - g.yaw) < yawThr

\* the pose at which the convergence test holds: every remaining offset,
\* as the program computes it, is zero
AcceptedPose(g, o) ==
  [gps |-> [latitude |-> o.latitude + g.x,
            longitude |-> o.longitude + g.y,
            altitude |-> o.altitude - g.z],
   yaw |-> g.yaw]

\* the "dwell" vehicle may be out of bounds in the coming cycle: it stays
\* out, or it leaves once more
MaxExcursions == 2
MaxExcursionCycles == 12
MayBeOut(made, len) ==
  IF len > 0 THEN len < MaxExcursionCycles ELSE made < MaxExcursions

\* the samples each simulated vehicle may publish after a setpoint
\* (x, y, z, yaw) was sent
NextSamples(f, cur, yaw, cx, cy, cz, g, o) ==
  CASE f = "still" -> {[gps |-> cur, yaw |-> yaw]}
    [] f = "track" ->
         {[gps |-> [latitude |-> cur.latitude + cx,
                    longitude |-> cur.longitude + cy,
                    altitude |-> cz],
           yaw |-> g.yaw]}
    [] f = "settle" ->
         IF cur = o
           THEN {[gps |-> cur, yaw |-> yaw], AcceptedPose(g, o)}
           ELSE {AcceptedPose(g, o)}
    [] f = "dwell" ->
         {AcceptedPose(g, o)}
           \cup (IF MayBeOut(excursionsMade, excursionLen)
                   THEN {[AcceptedPose(g, o) EXCEPT !.gps.altitude = o.altitude + g.z]}
                   ELSE {})
    [] OTHER ->
         {[gps |-> [latitude |-> o.latitude + g.x + d[1],
                    longitude |-> o.longitude + g.y + d[2],
                    altitude |-> o.altitude + g.z],
           yaw |-> g.yaw + 90] :
            d \in {<<0, 0>>, <<-100, 300>>, <<300, -100>>, <<-300, -300>>}}

\* the call, with a goal and a simulated vehicle
CallMove(goals, feeds) ==
  /\ pc = "idle"
  /\ op' = "move"
  /\ pc' = "verify"
  /\ \E g \in goals, f \in feeds, pt \in PosThresholds, yt \in YawThresholds :
       /\ goal' = g
       /\ feed' = f
       /\ posThresholdInM' = pt
       /\ yawThresholdInDeg' = yt
  /\ UNCHANGED <<result, outcome, exitLine, started, removeCount, teardownAck, actuated,
                 telemetryRead, lastSent, flightVars, originGPS, currentGPS,
                 yawInRad, xCmd, yCmd, zCmd, elapsedTimeInMs,
                 withinBoundsCounter, outOfBounds, inBoundsStreak, wasReset, excursionsMade, excursionLen, brakeCounter,
                 setpointsSent, lastSetpoint, brakesSent>>

\* mutant: the z command is the offset, relative as x and y are
ZCmdAtCapture_relative(altitude, zOffsetDesired) == zOffsetDesired

\* "the z cmd is absolute height": altitude at capture plus the offset
ZCmdAtCapture(altitude, zOffsetDesired) == altitude + zOffsetDesired

\* sleep(1), then the origin is captured and the first setpoint computed
Capture ==
  /\ pc = "capture" /\ op = "move"
  /\ \E s \in OriginSamples, y \in OriginYaws :
       /\ currentGPS' = s
       /\ originGPS' = s
       /\ yawInRad' = y
       /\ zCmd' = ZCmdAtCapture(s.altitude, goal.z)
  /\ telemetryRead' = TRUE
  /\ xCmd' = InitialCmd(goal.x)
  /\ yCmd' = InitialCmd(goal.y)
  /\ pc' = "loop"
  /\ UNCHANGED <<op, result, outcome, exitLine, started, removeCount, teardownAck, actuated,
                 lastSent, flightVars, feed, goal, posThresholdInM,
                 yawThresholdInDeg, elapsedTimeInMs, withinBoundsCounter,
                 outOfBounds, inBoundsStreak, wasReset, excursionsMade, excursionLen, brakeCounter, setpointsSent, lastSetpoint, brakesSent>>

\* cap of the count of consecutive within-bounds cycles: the dwell
\* requirement in cycles, nothing is asked of longer runs
MaxStreak == withinControlBoundsTimeReqmt \div cycleTimeInMs

\* mutant: step 3 resets the out-of-bounds counter only
CountersAfter_keepWithin(inBounds, within, out) ==
  LET w1 == IF inBounds THEN within + cycleTimeInMs ELSE within
      o1 == IF ~inBounds /\ within # 0 THEN out + cycleTimeInMs ELSE out
  IN  IF o1 > outOfControlBoundsTimeLimit
        THEN [within |-> w1, out |-> 0]
        ELSE [within |-> w1, out |-> o1]

\* counters after the convergence test of one cycle (steps 1 to 3)
CountersAfter(inBounds, within, out) ==
  LET w1 == IF inBounds THEN within + cycleTimeInMs ELSE within
      o1 == IF ~inBounds /\ within # 0 THEN out + cycleTimeInMs ELSE out
  IN  IF o1 > outOfControlBoundsTimeLimit
        THEN [within |-> 0, out |-> 0]
        ELSE [within |-> w1, out |-> o1]

\* the yaw argument of positionAndYawCtrl: the desired yaw converted to
\* radians and back (DEG2RAD cancels)
YawCmd(yawDesired) == yawDesired

\* mutant: the loop runs one more cycle at the ceiling
ControlLoopCond_inclusive(elapsed) == elapsed <= timeoutInMilSec

\* condition of the control loop
ControlLoopCond(elapsed) == elapsed < timeoutInMilSec

\* mutant: the break compares with the out-of-bounds limit
Converged_grace(within) == within >= outOfControlBoundsTimeLimit

\* step 4, the break
Converged(within) == within >= withinControlBoundsTimeReqmt

\* one evaluation of the control loop's condition.  When it holds: send the
\* setpoint, sleep one cycle, read the telemetry, update the setpoint and
\* the counters, and leave the loop on the break.  When it fails: leave the
\* loop.
ControlCycle ==
  /\ pc = "loop" /\ op = "move"
  /\ IF ControlLoopCond(elapsedTimeInMs)
       THEN /\ actuated' = TRUE
            /\ lastSent' = "setpoint"
            /\ setpointsSent' = setpointsSent + 1
            /\ lastSetpoint' = [x |-> xCmd, y |-> yCmd, z |-> zCmd,
                                yaw |-> YawCmd(goal.yaw)]
            /\ elapsedTimeInMs' = elapsedTimeInMs + cycleTimeInMs
            /\ \E s \in NextSamples(feed, currentGPS, yawInRad, xCmd, yCmd,
                                    zCmd, goal, originGPS) :
                 /\ currentGPS' = s.gps
                 /\ yawInRad' = s.yaw
                 /\ LET out == feed = "dwell" /\ s # AcceptedPose(goal, originGPS)
                    IN  /\ excursionLen' = IF out THEN excursionLen + 1 ELSE 0
                        /\ excursionsMade' =
                             IF out /\ excursionLen = 0
                               THEN excursionsMade + 1 ELSE excursionsMade
            /\ LET localOffset == localOffsetFromGpsOffset(currentGPS', originGPS)
                   xRem == xOffsetRemainingOf(goal, localOffset)
                   yRem == yOffsetRemainingOf(goal, localOffset)
                   zRem == zOffsetRemainingOf(goal, localOffset)
                   inBounds == WithinBounds(xRem, yRem, zRem, yawInRad', goal,
                                            posThresholdInM, yawThresholdInDeg)
                   c == CountersAfter(inBounds, withinBoundsCounter, outOfBounds)
               IN  /\ xCmd' = UpdatedCmd(xCmd, xRem)
                   /\ yCmd' = UpdatedCmd(yCmd, yRem)
                   /\ withinBoundsCounter' = c.within
                   /\ outOfBounds' = c.out
                   /\ inBoundsStreak' =
                        IF inBounds THEN Min(inBoundsStreak + 1, MaxStreak) ELSE 0
                   /\ wasReset' =
                        (wasReset \/ (~inBounds /\ withinBoundsCounter # 0
                                       /\ c.within = 0))
            /\ pc' = IF Converged(withinBoundsCounter') THEN "brake" ELSE "loop"
       ELSE /\ pc' = "brake"
            /\ UNCHANGED <<actuated, lastSent, elapsedTimeInMs, currentGPS,
                           yawInRad, xCmd, yCmd, withinBoundsCounter,
                           outOfBounds, inBoundsStreak, wasReset, excursionsMade, excursionLen, setpointsSent, lastSetpoint>>
  /\ UNCHANGED <<op, result, outcome, exitLine, started, removeCount, teardownAck,
                 telemetryRead, flightVars, feed, goal, posThresholdInM,
                 yawThresholdInDeg, originGPS, zCmd, brakeCounter, brakesSent>>

\* mutant: the brake loop compares with the cycle time, and brakes once
BrakeLoopCond_once(counter) == counter < cycleTimeInMs

\* condition of the brake loop
BrakeLoopCond(counter) == counter < withinControlBoundsTimeReqmt

\* one evaluation of the brake loop's condition: emergencyBrake and count,
\* or leave the loop
Brake ==
  /\ pc = "brake" /\ op = "move"
  /\ IF BrakeLoopCond(brakeCounter)
       THEN /\ actuated' = TRUE
            /\ lastSent' = "brake"
            /\ brakesSent' = brakesSent + 1
            /\ brakeCounter' = brakeCounter + cycleTimeInMs
            /\ pc' = "brake"
       ELSE /\ pc' = "finish"
            /\ UNCHANGED <<actuated, lastSent, brakeCounter, brakesSent>>
  /\ UNCHANGED <<op, result, outcome, exitLine, started, removeCount, teardownAck,
                 telemetryRead, flightVars, feed, goal, posThresholdInM,
                 yawThresholdInDeg, originGPS, currentGPS, yawInRad, xCmd,
                 yCmd, zCmd, elapsedTimeInMs, withinBoundsCounter, outOfBounds, inBoundsStreak, wasReset, excursionsMade, excursionLen,
                 setpointsSent, lastSetpoint>>

\* the check that follows the brake loop
TimedOut(elapsed) == elapsed >= timeoutInMilSec

\* mutant: a failed acknowledgement of removePackage turns the successful
\* return into a failure
MoveFinish_teardownFails ==
  /\ pc = "finish" /\ op = "move"
  /\ \E ack \in AckValues :
       IF TimedOut(elapsedTimeInMs)
         THEN /\ RemovePackage(ack)
              /\ Return("ACK::FAIL", "Timeout", 409)
         ELSE /\ RemovePackage(ack)
              /\ Return(IF ack = "SUCCESS" THEN "ACK::SUCCESS" ELSE "ACK::FAIL",
                        "Success", 419)
  /\ UNCHANGED <<op, started, actuated, telemetryRead, lastSent, flightVars,
                 moveVars>>

\* mutant: the timeout branch returns without removing the package
MoveFinish_noRemoveOnTimeout ==
  /\ pc = "finish" /\ op = "move"
  /\ \E ack \in AckValues :
       IF TimedOut(elapsedTimeInMs)
         THEN /\ UNCHANGED <<removeCount, teardownAck>>
              /\ Return("ACK::FAIL", "Timeout", 409)
         ELSE /\ RemovePackage(ack)
              /\ Return("ACK::SUCCESS", "Success", 419)
  /\ UNCHANGED <<op, started, actuated, telemetryRead, lastSent, flightVars,
                 moveVars>>

\* timeout check, cleanup and return; each branch removes the package, and
\* the acknowledgement of removePackage only selects a message
MoveFinish ==
  /\ pc = "finish" /\ op = "move"
  /\ \E ack \in AckValues :
       IF TimedOut(elapsedTimeInMs)
         THEN /\ RemovePackage(ack)
              /\ Return("ACK::FAIL", "Timeout", 409)
         ELSE /\ RemovePackage(ack)
              /\ Return("ACK::SUCCESS", "Success", 419)
  /\ UNCHANGED <<op, started, actuated, telemetryRead, lastSent, flightVars,
                 moveVars>>

----------------------------------------------------------------------------
(* Specifications *)

NoGPS == [latitude |-> 0, longitude |-> 0, altitude |-> 0]

Init ==
  /\ op = "none"
  /\ pc = "idle"
  /\ result = "none"
  /\ outcome = "none"
  /\ exitLine = 0
  /\ flightStatus = "OTHER_STATUS"
  /\ displayMode = "OTHER_MODE"
  /\ motorsNotStarted = 0
  /\ stillOnGround = 0
  /\ landingNotStarted = 0
  /\ autoLandingSeen = FALSE
  /\ started = FALSE
  /\ removeCount = 0
  /\ teardownAck = "none"
  /\ actuated = FALSE
  /\ telemetryRead = FALSE
  /\ accepted = FALSE
  /\ polls = 0
  /\ allOnGround = TRUE
  /\ allAirborne = TRUE
  /\ spinMon = "wait_spin"
  /\ finalMode = "none"
  /\ airExitMode = "none"
  /\ feed = "still"
  /\ goal = [x |-> 0, y |-> 0, z |-> 0, yaw |-> 0]
  /\ posThresholdInM = 0
  /\ yawThresholdInDeg = 0
  /\ originGPS = NoGPS
  /\ currentGPS = NoGPS
  /\ yawInRad = 0
  /\ xCmd = 0
  /\ yCmd = 0
  /\ zCmd = 0
  /\ elapsedTimeInMs = 0
  /\ withinBoundsCounter = 0
  /\ outOfBounds = 0
  /\ inBoundsStreak = 0
  /\ wasReset = FALSE
  /\ excursionsMade = 0
  /\ excursionLen = 0
  /\ brakeCounter = 0
  /\ setpointsSent = 0
  /\ lastSetpoint = [x |-> 0, y |-> 0, z |-> 0, yaw |-> 0]
  /\ brakesSent = 0
  /\ lastSent = "none"

TakeoffNext ==
  \/ CallFlight("takeoff")
  \/ Verify("takeoff")
  \/ InitPackage("takeoff")
  \/ StartPackage("takeoff")
  \/ TakeoffRequest
  \/ MotorsPoll
  \/ AirPoll
  \/ SettlePoll
  \/ TakeoffFinal

LandingNext ==
  \/ CallFlight("landing")
  \/ Verify("landing")
  \/ InitPackage("landing")
  \/ StartPackage("landing")
  \/ LandRequest
  \/ DescentPoll
  \/ TouchdownPoll
  \/ LandingFinal

MoveSteps ==
  \/ Verify("move")
  \/ InitPackage("move")
  \/ StartPackage("move")
  \/ Capture
  \/ ControlCycle
  \/ Brake
  \/ MoveFinish

MoveNext == CallMove(Goals, Feeds) \/ MoveSteps

DwellNext == CallMove(DwellGoals, DwellFeeds) \/ MoveSteps

Next ==
  \/ TakeoffNext
  \/ LandingNext
  \/ CallMove(Goals, Feeds)
  \/ CallMove(DwellGoals, DwellFeeds)
  \/ MoveSteps

Spec == Init /\ [][Next]_vars

\* takeoff and landing alone
FlightNext == TakeoffNext \/ LandingNext
FlightSpec == Init /\ [][FlightNext]_vars

\* the same, where the called procedure keeps taking its next step: it runs
\* on its own thread and every sleep ends
FlightFairSpec == FlightSpec /\ WF_vars(FlightNext)

\* moveByPositionOffset alone
MoveSpec == Init /\ [][MoveNext]_vars

\* moveByPositionOffset with the vehicle that enters and leaves the bounds
DwellSpec == Init /\ [][DwellNext]_vars

\* the three procedures, the move with the first four simulated vehicles
SampleNext == FlightNext \/ MoveNext
SampleSpec == Init /\ [][SampleNext]_vars

----------------------------------------------------------------------------
(* Claims *)

Done == pc = "done"
StableModes == {"MODE_P_GPS", "MODE_ATTITUDE"}
\* the control loop was entered: the package was started and the origin captured
LoopEntered == op = "move" /\ started /\ pc \notin {"verify", "init", "start", "capture"}
DwellCycles == withinControlBoundsTimeReqmt \div cycleTimeInMs
CeilingCycles == timeoutInMilSec \div cycleTimeInMs

\* C1 (as claimed): on every return reached after the package was started,
\* removePackage has been called, also when the takeoff / land request is
\* not acknowledged as success.
C1_RemovedBeforeEveryReturn ==
  (Done /\ started) => removeCount >= 1

\* C2 (as claimed): monitoredTakeoff and monitoredLanding eventually
\* return, whatever the telemetry stream.
C2_FlightEventuallyReturns == <>Done

C5_SuccessOnlyInStableMode ==
  (Done /\ op \in {"takeoff", "landing"} /\ finalMode # "none")
    => /\ (outcome = "Success" => finalMode \in StableModes)
       /\ (finalMode \notin StableModes => outcome = "UnexpectedMode")

\* C6 (as claimed): once the control loop has started, the move returns
\* Success exactly when withinBoundsCounter reached the dwell requirement
\* (which can only happen within the ceiling), and Timeout otherwise.
\* Stated for the goals that keep the altitude.
C6_SuccessIffDwellReached ==
  (Done /\ LoopEntered /\ goal.z = 0)
    => outcome = (IF Converged(withinBoundsCounter) THEN "Success" ELSE "Timeout")

\* C7: on every move that entered the control loop, no setpoint is sent
\* once a brake was sent, no brake is sent once the package was removed,
\* and the return comes after exactly 50 brakes, on Success and on Timeout.
C7_ControlledStop ==
  [][ /\ (setpointsSent' # setpointsSent => brakesSent = 0)
      /\ (brakesSent' # brakesSent => (removeCount = 0 /\ pc' # "done"))
      /\ ((pc # "done" /\ pc' = "done" /\ LoopEntered)
            => /\ brakesSent = DwellCycles
               /\ brakesSent >= 1
               /\ outcome' \in {"Success", "Timeout"}) ]_vars

C7_Witness ==
  /\ Done /\ LoopEntered
  /\ outcome = "Success"
  /\ setpointsSent > 0
  /\ brakesSent = DwellCycles
  /\ lastSent = "brake"

\* C8: a move removes its package exactly once on the start-failure, the
\* Timeout and the Success return, and never twice.
C8_RemovedExactlyOnce ==
  /\ (op = "move" => removeCount <= 1)
  /\ (Done /\ op = "move" /\ exitLine \in {270, 409, 419}) => removeCount = 1
  /\ (Done /\ op = "move" /\ outcome \in {"Timeout", "Success"})
       => exitLine \in {409, 419}

C8_Witness ==
  /\ Done /\ op = "move"
  /\ outcome = "Timeout"
  /\ removeCount = 1

\* C9: the control loop sends at most 500 setpoints and the brake loop at
\* most 50 brakes; with the vehicle that never moves and a goal outside the
\* tolerances, exactly 500 setpoints are sent and the move returns Timeout.
C9_BoundedAndStillTimesOut ==
  /\ setpointsSent <= CeilingCycles
  /\ brakesSent <= DwellCycles
  /\ elapsedTimeInMs = setpointsSent * cycleTimeInMs
  /\ (/\ Done /\ LoopEntered /\ feed = "still"
      /\ ~WithinBounds(goal.x, goal.y, goal.z, yawInRad, goal,
                       posThresholdInM, yawThresholdInDeg))
       => /\ setpointsSent = CeilingCycles
          /\ outcome = "Timeout"

C9_Witness ==
  /\ Done /\ LoopEntered /\ feed = "still"
  /\ goal = [x |-> 0, y |-> 600, z |-> 600, yaw |-> 30]
  /\ setpointsSent = CeilingCycles
  /\ brakesSent = DwellCycles
  /\ result = "ACK::FAIL"

\* C10 (as claimed): with the vehicle that moves exactly to each commanded
\* setpoint, the move to (0, 6, 6) m with yaw 30 degrees returns Success.
C10_TrackingVehicleConverges ==
  (/\ Done /\ LoopEntered /\ feed = "track"
   /\ goal = [x |-> 0, y |-> 600, z |-> 600, yaw |-> 30])
    => outcome = "Success"

\* C11 (as claimed): the value returned tells the terminal outcomes apart.
\* monitoredTakeoff and monitoredLanding return false when the link is not
\* ready, so a returned false would have to mean LinkNotReady and no other
\* outcome.
C11_ResultIdentifiesOutcome ==
  (Done /\ op \in {"takeoff", "landing"} /\ result = "false")
    => outcome = "LinkNotReady"

\* C12: the acknowledgement of the final removePackage does not change what
\* is returned: after a move that entered the control loop the result is
\* ACK::SUCCESS exactly when the ceiling was not reached, after the final
\* mode check of takeoff and landing it is true exactly when the check
\* passed, and every other return that removes the package returns false,
\* whatever the acknowledgement was.
C12_TeardownAckIgnored ==
  (Done /\ teardownAck # "none")
    => /\ LoopEntered
            => /\ (result = "ACK::SUCCESS") = ~TimedOut(elapsedTimeInMs)
               /\ (result = "ACK::FAIL") = TimedOut(elapsedTimeInMs)
               /\ (outcome = "Success") = (result = "ACK::SUCCESS")
               /\ (outcome = "Timeout") = (result = "ACK::FAIL")
       /\ (op \in {"takeoff", "landing"} /\ finalMode # "none")
            => /\ (result = "true") = FinalModeCheck(finalMode)
               /\ (result = "false") = ~FinalModeCheck(finalMode)
       /\ (~LoopEntered /\ finalMode = "none") => result = "false"

C12_Witness ==
  /\ Done /\ LoopEntered
  /\ teardownAck = "FAIL"
  /\ outcome = "Success"
  /\ result = "ACK::SUCCESS"

\* the returns taken when verify or initPackageFromTopicList failed, and
\* when startPackage failed
SetupExitLines == {92, 106, 247, 262, 440, 454}
StartExitLines == {114, 270, 462}

C14_LandingNotStartedIffNeverSeen ==
  /\ (Done /\ op = "landing" /\ accepted)
       => (outcome = "LandingNotStarted") = ~autoLandingSeen
  /\ (Done /\ outcome = "LandingNotStarted")
       => /\ landingNotStarted = LandingTimeoutCycles
          /\ removeCount = 1
          /\ result = "false"
  /\ pc = "descent" => (~autoLandingSeen /\ landingNotStarted <= LandingTimeoutCycles)
  /\ (op = "landing" /\ pc \in {"touchdown", "final"})
       => (autoLandingSeen /\ landingNotStarted < LandingTimeoutCycles)

C14_Witness ==
  /\ Done /\ op = "landing" /\ accepted
  /\ outcome = "LandingNotStarted"
  /\ landingNotStarted = LandingTimeoutCycles
  /\ displayMode = "MODE_AUTO_LANDING"
  /\ ~autoLandingSeen

TakeoffTransitionModes == {"MODE_ASSISTED_TAKEOFF", "MODE_AUTO_TAKEOFF"}

\* C15 (as claimed): the second loop of takeoff is left for the third
\* phase only on a poll that reads FlightStatus in-air and a DisplayMode
\* that is neither assisted-takeoff nor auto-takeoff.
C15_AirPhaseEndsOutOfTransition ==
  (op = "takeoff" /\ airExitMode # "none")
    => airExitMode \notin TakeoffTransitionModes

\* C16: every control cycle leaves both counters non-negative, the
\* out-of-bounds counter at most the grace limit and positive only if the
\* within-bounds counter is positive; and a cycle that takes the
\* out-of-bounds counter above the grace limit leaves both counters zero.
C16_CountersResetTogether ==
  [][ (setpointsSent' # setpointsSent)
        => /\ withinBoundsCounter' >= 0
           /\ outOfBounds' >= 0
           /\ outOfBounds' <= outOfControlBoundsTimeLimit
           /\ (outOfBounds' > 0 => withinBoundsCounter' > 0)
           /\ (/\ inBoundsStreak' = 0
               /\ withinBoundsCounter # 0
               /\ outOfBounds + cycleTimeInMs > outOfControlBoundsTimeLimit)
                => (withinBoundsCounter' = 0 /\ outOfBounds' = 0) ]_vars

C16_Witness ==
  /\ pc = "loop" /\ feed = "dwell"
  /\ wasReset
  /\ inBoundsStreak = 0
  /\ withinBoundsCounter = 0
  /\ outOfBounds = 0
  /\ excursionsMade = 2

\* C17 (as claimed): the move returns Success only when the last 50 control
\* cycles were all within bounds.
C17_SuccessAfterContinuousDwell ==
  (Done /\ LoopEntered /\ outcome = "Success")
    => inBoundsStreak >= DwellCycles

\* C17 (amended): the move returns Success only on a cycle that is within
\* bounds and brings the within-bounds cycles counted since the counters
\* were last zero to 50, the out-of-bounds cycles among them being at most
\* 10; the counters never count more cycles than were run, and the
\* within-bounds counter covers the latest run of within-bounds cycles.
C17_SuccessAfterAccumulatedDwell ==
  /\ (Done /\ LoopEntered /\ outcome = "Success")
       => /\ inBoundsStreak >= 1
          /\ withinBoundsCounter = withinControlBoundsTimeReqmt
          /\ outOfBounds <= outOfControlBoundsTimeLimit
          /\ setpointsSent >= DwellCycles
  /\ LoopEntered
       => /\ withinBoundsCounter + outOfBounds <= setpointsSent * cycleTimeInMs
          /\ inBoundsStreak * cycleTimeInMs <= withinBoundsCounter

C17_Witness ==
  /\ Done /\ LoopEntered /\ feed = "dwell"
  /\ outcome = "Success"
  /\ ~wasReset
  /\ inBoundsStreak = 1
  /\ outOfBounds = outOfControlBoundsTimeLimit
  /\ setpointsSent = DwellCycles + 10

\* C18: every x and y command, as computed and as sent, has magnitude at
\* most speedFactor; and whenever the remaining offset last measured on an
\* axis is below speedFactor in magnitude, the command of that axis is that
\* remaining offset, whatever the other axis reads.
C18_CommandsClamped ==
  LoopEntered
    => /\ Abs(xCmd) <= speedFactor /\ Abs(yCmd) <= speedFactor
       /\ Abs(lastSetpoint.x) <= speedFactor
       /\ Abs(lastSetpoint.y) <= speedFactor
       /\ Abs(xOffsetRemaining) < speedFactor => xCmd = xOffsetRemaining
       /\ Abs(yOffsetRemaining) < speedFactor => yCmd = yOffsetRemaining

C18_Witness ==
  /\ LoopEntered /\ pc = "loop" /\ setpointsSent > 1
  /\ goal = [x |-> 0, y |-> 600, z |-> 600, yaw |-> 30]
  /\ xOffsetRemaining = 100 /\ xCmd = 100
  /\ yOffsetRemaining = -300 /\ yCmd = speedFactor
  /\ lastSetpoint.x # xCmd

\* the command is zero or points the way of the remaining offset
SameDirection(cmd, offsetRemaining) ==
  \/ cmd = 0
  \/ (cmd > 0 /\ offsetRemaining > 0)
  \/ (cmd < 0 /\ offsetRemaining < 0)

\* C19 (as claimed): every x and y command is zero or has the sign of the
\* remaining offset last measured on its axis, also after an overshoot of
\* more than speedFactor.
C19_CommandsPointToGoal ==
  (LoopEntered /\ pc = "loop")
    => /\ SameDirection(xCmd, xOffsetRemaining)
       /\ SameDirection(yCmd, yOffsetRemaining)

\* C20: once the origin is captured, no control cycle changes the origin,
\* the z command or the goal, and every setpoint sent carries the altitude
\* at capture plus the desired z offset, and the desired yaw.
C20_OriginAndZFixed ==
  [][ LoopEntered
        => /\ originGPS' = originGPS
           /\ zCmd' = zCmd
           /\ zCmd = originGPS.altitude + goal.z
           /\ (setpointsSent' # setpointsSent
                 => /\ lastSetpoint'.z = originGPS.altitude + goal.z
                    /\ lastSetpoint'.yaw = goal.yaw) ]_vars

C20_Witness ==
  /\ LoopEntered /\ feed = "track" /\ setpointsSent > 2
  /\ goal = [x |-> 600, y |-> 0, z |-> -300, yaw |-> -30]
  /\ currentGPS.altitude # originGPS.altitude
  /\ lastSetpoint.z = originGPS.altitude - 300
  /\ lastSetpoint.yaw = -30

====
